---- MODULE Spec2Model ----
(***************************************************************************)
(* TTSService (api/src/services/tts_service.py): the voice cache of        *)
(* _load_voice, the non-streaming synthesis of _generate_audio, the        *)
(* streaming generator generate_audio_stream, the construction of the      *)
(* service in __new__, combine_voices and list_voices.                     *)
(*                                                                         *)
(* One request is in progress at a time; the voice cache and the voice     *)
(* store outlive the requests.  The outcomes of the external collaborators *)
(* (normalize_text, chunker.split_text, TTSModel.process_text,             *)
(* TTSModel.generate_from_tokens, AudioService.convert_audio) are inputs   *)
(* chosen at the step that calls them.                                     *)
(***************************************************************************)
EXTENDS Integers, Sequences, FiniteSets, TLC

\* ------------------------------------------------------------------ bounds
\* Longest chunk sequence chunker.split_text produces.
MaxChunks == 3
\* settings.n_cache_voices, the maxsize of the lru_cache (8 in the shipped
\* configuration), scaled down.
n_cache_voices == 2
\* Voices in the store beyond the capacity of the cache.
ExtraVoices == 1
\* Longest sequence of direct _load_voice calls of the cache specification.
MaxCalls == 4
\* Threads of the concurrent specifications.
NumThreads == 2
\* Constructions each thread makes in the concurrent specification of
\* TTSService.__new__.
MaxThreadCalls == 2

\* ------------------------------------------------------------------ values
None == 0
NoVoice == 0
NoPath == <<>>
\* Voice names: 1..NumVoices have a file in the store, MissingVoice has none.
NumVoices == n_cache_voices + ExtraVoices
MissingVoice == NumVoices + 1
VoiceNames == 1..MissingVoice
\* Raw request texts: the empty text and a non-empty one.
Texts == {"", "raw"}
\* What normalize_text returns for a non-empty text.
NormalizedTexts == {"", "norm"}
\* Chunks are named by their ordinal in the chunk sequence.
Chunks == 1..MaxChunks

VARIABLES
    store,          \* voice store: voice name -> embedding, NoVoice when absent
    cache,          \* lru_cache of _load_voice: <<[path, emb]>>, least recent first
    calls,          \* direct _load_voice calls made so far (cache specification)
    pc,             \* position of the request in progress
    op,             \* "none", "stream" (generate_audio_stream), "complete" (_generate_audio)
    text,           \* argument text
    voice,          \* argument voice
    stitch,         \* argument stitch_long_output
    voicepack,      \* local voicepack
    pulled,         \* chunks pulled from chunker.split_text so far
    current_chunk,  \* local current_chunk / loop variable chunk
    next_chunk,     \* local next_chunk
    is_first,       \* local is_first
    chunks_data,    \* local chunks_data: <<[chunk, tokens]>>
    audio_chunks,   \* local audio_chunks: <<buffer>>
    idx,            \* position of the second loop in chunks_data
    trace,          \* what the request has done so far, in order
    result,         \* how the request ended
    thr,            \* threads calling _load_voice concurrently
    ctor,           \* threads constructing TTSService concurrently
    instance,       \* TTSService._instance
    objects,        \* output_dir of every TTSService object created, by creation
    voices,         \* combine_voices: argument voices
    t_voices,       \* combine_voices: local t_voices
    v_name,         \* combine_voices: local v_name
    listing,        \* list_voices: local voices
    scan_left,      \* list_voices: entries the scandir iterator has not given yet
    listed,         \* list_voices: the list returned
    combined,       \* combine_voices: the name returned, None when none was
    streamed        \* the stream a consumer collected to its end

vars == <<store, cache, calls, pc, op, text, voice, stitch, voicepack, pulled,
          current_chunk, next_chunk, is_first, chunks_data, audio_chunks, idx,
          trace, result, thr, ctor, instance, objects, voices, t_voices, v_name,
          listing, scan_left, listed, combined, streamed>>

reqLocals == <<voicepack, pulled, current_chunk, next_chunk, is_first,
               chunks_data, audio_chunks, idx>>
reqArgs == <<op, text, voice, stitch>>
\* What the synthesis requests never touch.
conc == <<thr, ctor, instance, objects>>
vlocals == <<voices, t_voices, v_name, listing, scan_left, listed, combined>>
aux == <<conc, vlocals, streamed>>

\* ------------------------------------------------------------- voice store
\* os.path.join(TTSModel.VOICES_DIR, f"{voice_name}.pt")
VoiceFile(voice_name) == <<"voices", voice_name>>

\* The embedding torch.load reads at a path of the store.
torch_load(st, voice_path) == st[voice_path[2]]

\* _get_voice_path: the path if the file exists, else None (NoPath).
_get_voice_path(st, voice_name) ==
    IF st[voice_name] # NoVoice THEN VoiceFile(voice_name) ELSE NoPath

\* "_".join(v_name).  A name is written as a decimal numeral whose digits are
\* its '_'-separated parts: 1 is "1", 12 is "1_2", 123 is "1_2_3".
RECURSIVE Digits(_)
Digits(n) == IF n < 10 THEN 1 ELSE 1 + Digits(n \div 10)

RECURSIVE Pow10(_)
Pow10(d) == IF d = 0 THEN 1 ELSE 10 * Pow10(d - 1)

RECURSIVE JoinReversed(_)
JoinReversed(names) ==
    IF Len(names) = 1 THEN names[1]
    ELSE LET rest == JoinReversed(Tail(names)) IN
         rest * Pow10(Digits(Head(names))) + Head(names)

RECURSIVE JoinNames(_)
JoinNames(names) ==
    IF Len(names) = 1 THEN names[1]
    ELSE LET front == JoinNames(SubSeq(names, 1, Len(names) - 1))
             last == names[Len(names)] IN
         front * Pow10(Digits(last)) + last

\* The argument lists combine_voices is called with: too few names, names of
\* stored voices, the name of an earlier combination, a name with no file.
CombineArgs ==
    { <<>>, <<1>>, <<1, 2>>, <<JoinNames(<<1, 2>>), 3>>, <<1, 2, 3>>,
      <<1, MissingVoice>>, <<MissingVoice, 1>> }

\* The names combine_voices can save under.
CombinedNames == { JoinNames(vs) : vs \in { a \in CombineArgs : Len(a) >= 2 } }

\* Every name the store is asked about.
StoreNames == VoiceNames \cup CombinedNames

\* The embedding stored for voice i: multiples of 12, so that the means of
\* two and of three embeddings are whole numbers.
Embedding(i) == 12 * i

InitStore ==
    [v \in StoreNames |-> IF v \in VoiceNames \ {MissingVoice} THEN Embedding(v) ELSE NoVoice]

RECURSIVE SumOf(_)
SumOf(ts) == IF ts = <<>> THEN 0 ELSE Head(ts) + SumOf(Tail(ts))

\* torch.mean(torch.stack(t_voices), dim=0)
torch_mean(ts) == SumOf(ts) \div Len(ts)

\* The directory entries os.scandir gives for the store: one "<name>.pt" per
\* stored voice and one entry that is not a voice file.
OtherEntry == <<0, "txt">>
DirEntries(st) == { <<v, "pt">> : v \in { n \in StoreNames : st[n] # NoVoice } } \cup {OtherEntry}

\* entry.name.endswith(".pt") and entry.name[:-3]
EndsWithPt(entry) == entry[2] = "pt"
StripPt(entry) == entry[1]

\* The characters of a name between the separators, for comparing names as
\* strings.
RECURSIVE NameParts(_)
NameParts(n) == IF n < 10 THEN <<n>> ELSE NameParts(n \div 10) \o <<n % 10>>

\* a < b for the strings a and b.
RECURSIVE SeqLess(_, _)
SeqLess(a, b) ==
    IF a = <<>> THEN b # <<>>
    ELSE IF b = <<>> THEN FALSE
    ELSE IF Head(a) # Head(b) THEN Head(a) < Head(b)
    ELSE SeqLess(Tail(a), Tail(b))

NameLess(a, b) == SeqLess(NameParts(a), NameParts(b))

\* sorted(voices)
RECURSIVE InsertSorted(_, _)
InsertSorted(x, sq) ==
    IF sq = <<>> THEN <<x>>
    ELSE IF NameLess(Head(sq), x) THEN <<Head(sq)>> \o InsertSorted(x, Tail(sq))
    ELSE <<x>> \o sq

RECURSIVE sorted(_)
sorted(sq) == IF sq = <<>> THEN <<>> ELSE InsertSorted(Head(sq), sorted(Tail(sq)))

\* ------------------------------------------------------------- voice cache
CacheKeys(c) == [i \in 1..Len(c) |-> c[i].path]

CacheHas(c, voice_path) == \E i \in 1..Len(c) : c[i].path = voice_path

CacheIndex(c, voice_path) == CHOOSE i \in 1..Len(c) : c[i].path = voice_path

\* The cache without its i-th entry.
CacheWithout(c, i) == SubSeq(c, 1, i - 1) \o SubSeq(c, i + 1, Len(c))

\* A hit on the i-th entry makes it the most recently used one.
CacheTouchNoMove(c, i) == c
CacheTouch(c, i) == CacheWithout(c, i) \o <<c[i]>>

\* A full cache after evicting for an insertion: the least recently used goes.
EvictNewest(c) == SubSeq(c, 1, Len(c) - 1)
Evict(c) == Tail(c)

\* lru_cache(maxsize = n_cache_voices) around torch.load: the cache after a
\* call for voice_path, the value returned, and whether storage was read.
CacheInsert(c, entry) ==
    IF n_cache_voices = 0 THEN c
    ELSE IF Len(c) >= n_cache_voices THEN Evict(c) \o <<entry>>
    ELSE c \o <<entry>>

\* _load_voice under lru_cache: a hit returns the cached embedding and makes
\* the entry the most recent; a miss reads storage and inserts the embedding;
\* a read that raises (no file at the path) leaves the cache as it was.
_load_voice(c, st, voice_path) ==
    IF CacheHas(c, voice_path)
    THEN LET i == CacheIndex(c, voice_path) IN
         [cache |-> CacheTouch(c, i), value |-> c[i].emb,
          read |-> FALSE, raised |-> FALSE]
    ELSE LET emb == torch_load(st, voice_path) IN
         IF emb = NoVoice
         THEN [cache |-> c, value |-> NoVoice, read |-> TRUE, raised |-> TRUE]
         ELSE [cache |-> CacheInsert(c, [path |-> voice_path, emb |-> emb]),
               value |-> emb, read |-> TRUE, raised |-> FALSE]

\* ------------------------------------------------------------------ audio
\* The buffer the synthesis stub returns for a chunk: id names the array
\* object, samples are its contents.
Samples(chunk) == [k \in 1..(1 + (chunk % 2)) |-> 10 * chunk + k]
Buffer(chunk) == [id |-> chunk, samples |-> Samples(chunk)]
NoAudio == [id |-> -1, samples |-> <<>>]

RECURSIVE Flatten(_)
Flatten(bufs) ==
    IF bufs = <<>> THEN <<>> ELSE Head(bufs).samples \o Flatten(Tail(bufs))

\* np.concatenate(audio_chunks): a new array holding the samples in order.
np_concatenate(bufs) == [id |-> 0, samples |-> Flatten(bufs)]

\* ------------------------------------------------------------------ trace
Ev(e, k) == [ev |-> e, k |-> k, first |-> FALSE, last |-> FALSE]
EvFlags(e, k, f, l) == [ev |-> e, k |-> k, first |-> f, last |-> l]

NoResult == [kind |-> "none", err |-> "", audio |-> NoAudio]

\* Threads of the concurrent specifications, and a thread that is in no call.
Threads == 1..NumThreads
IdleThread == [pc |-> "idle", arg |-> NoPath, value |-> NoVoice, read |-> FALSE]
IdleCtor == [pc |-> "idle", arg |-> "", value |-> None, n |-> 0]
\* The output_dir arguments of the constructions, and an object that has no
\* output_dir attribute yet.
OutputDirs == {"out_a", "out_b"}
NoDir == "unset"

\* No stream collected yet.
NoStream == [text |-> "", voice |-> None, trace |-> <<>>]

Init ==
    /\ store = InitStore
    /\ cache = <<>>
    /\ calls = <<>>
    /\ pc = "idle"
    /\ op = "none"
    /\ text = ""
    /\ voice = 1
    /\ stitch = TRUE
    /\ voicepack = NoVoice
    /\ pulled = 0
    /\ current_chunk = None
    /\ next_chunk = None
    /\ is_first = TRUE
    /\ chunks_data = <<>>
    /\ audio_chunks = <<>>
    /\ idx = 0
    /\ trace = <<>>
    /\ result = NoResult
    /\ thr = [t \in Threads |-> IdleThread]
    /\ ctor = [t \in Threads |-> IdleCtor]
    /\ instance = None
    /\ objects = <<>>
    /\ voices = <<>>
    /\ t_voices = <<>>
    /\ v_name = <<>>
    /\ listing = <<>>
    /\ scan_left = {}
    /\ listed = <<>>
    /\ combined = None
    /\ streamed = NoStream

\* A call of the service: a new request replaces the finished one.
NewRequest(o, t, v, st) ==
    /\ pc \in {"idle", "done"}
    /\ op' = o
    /\ text' = t
    /\ voice' = v
    /\ stitch' = st
    /\ voicepack' = NoVoice
    /\ pulled' = 0
    /\ current_chunk' = None
    /\ next_chunk' = None
    /\ is_first' = TRUE
    /\ chunks_data' = <<>>
    /\ audio_chunks' = <<>>
    /\ idx' = 0
    /\ trace' = <<>>
    /\ result' = NoResult
    /\ UNCHANGED <<store, cache, calls, aux>>

StartStream ==
    \E t \in Texts, v \in VoiceNames :
        /\ NewRequest("stream", t, v, TRUE)
        /\ pc' = "s_validate"

StartComplete ==
    \E t \in Texts, v \in VoiceNames, st \in BOOLEAN :
        /\ NewRequest("complete", t, v, st)
        /\ pc' = "c_validate"

\* ------------------------------------------------- external collaborators
\* What next(chunk_gen, None) / the for loop over chunker.split_text can
\* give after p chunks: the next chunk, the end of the sequence, or an error.
PullOutcomes(p) == {"end", "raise"} \cup (IF p < MaxChunks THEN {"chunk"} ELSE {})

\* TTSModel.generate_from_tokens: a buffer, nothing, or an exception.
SynthOutcomes == {"audio", "none", "raise"}

\* ------------------------------------------------ generate_audio_stream
\* The validation of generate_audio_stream: the message of the ValueError
\* raised, "" when the request passes.
StreamValidation(t, normalized, st, v) ==
    IF t = "" THEN "Text is empty"
    ELSE IF normalized = "" THEN "Text is empty after preprocessing"
    ELSE IF _get_voice_path(st, v) = NoPath THEN "Voice not found"
    ELSE ""

\* finally: cleanup() of generate_audio_stream, on the exit named by kind.
StreamFinallyNotOnClose(kind) == IF kind = "closed" THEN <<>> ELSE <<Ev("cleanup", 0)>>
StreamFinally(kind) == <<Ev("cleanup", 0)>>

\* The generator ends: kind is "exhausted" (normal return), "raised" (outer
\* except logs and re-raises) or "closed" (GeneratorExit at the yield).
StreamEnd(evs, kind, err) ==
    /\ pc' = "done"
    /\ result' = [kind |-> kind, err |-> err, audio |-> NoAudio]
    /\ trace' = trace \o evs \o StreamFinally(kind)

\* except Exception of the per-chunk try: the stages whose exception it catches.
InnerExceptNotTokenize(stage) == stage # "tokenize"
InnerExceptNotSynthesize(stage) == stage # "synthesize"
InnerExceptNotEncode(stage) == stage # "encode"
InnerExceptCatches(stage) == TRUE

\* is_last_chunk = (next_chunk is None)
IsLastChunk(nxt) == nxt = None

\* is_first_chunk = is_first
FirstFlagAlways(first) == TRUE
IsFirstChunk(first) == first

\* is_first = False after the yield
IsFirstAfterYield == FALSE

\* Lines 130-143: validation, then the voice through the cache.
StreamValidate ==
    /\ pc = "s_validate"
    /\ \E normalized \in NormalizedTexts :
        LET err == StreamValidation(text, normalized, store, voice)
            nz == IF text = "" THEN <<>>
                  ELSE <<Ev("normalize", IF normalized = "" THEN 0 ELSE 1)>> IN
        IF err # ""
        THEN /\ StreamEnd(nz, "raised", err)
             /\ UNCHANGED <<cache, voicepack>>
        ELSE LET r == _load_voice(cache, store, _get_voice_path(store, voice)) IN
             /\ cache' = r.cache
             /\ voicepack' = r.value
             /\ trace' = trace \o nz \o <<Ev("load", voice)>>
             /\ pc' = "s_first"
             /\ UNCHANGED result
    /\ UNCHANGED <<store, calls, aux, reqArgs, pulled, current_chunk, next_chunk,
                   is_first, chunks_data, audio_chunks, idx>>

\* Lines 149-150: chunk_gen = split_text(text); current_chunk = next(chunk_gen, None)
StreamFirstPull ==
    /\ pc = "s_first"
    /\ \E o \in PullOutcomes(pulled) :
        \/ /\ o = "chunk"
           /\ pulled' = pulled + 1
           /\ current_chunk' = pulled + 1
           /\ trace' = trace \o <<Ev("pull", pulled + 1)>>
           /\ pc' = "s_loop"
           /\ UNCHANGED result
        \/ /\ o = "end"
           /\ current_chunk' = None
           /\ trace' = trace \o <<Ev("pull", None)>>
           /\ pc' = "s_loop"
           /\ UNCHANGED <<pulled, result>>
        \/ /\ o = "raise"
           /\ StreamEnd(<<Ev("pull_raised", 0)>>, "raised", "chunker error")
           /\ UNCHANGED <<pulled, current_chunk>>
    /\ UNCHANGED <<store, cache, calls, aux, reqArgs, voicepack, next_chunk, is_first,
                   chunks_data, audio_chunks, idx>>

\* Lines 152-155: the loop test, then the peek at the next chunk.
StreamLoop ==
    /\ pc = "s_loop"
    /\ IF current_chunk = None
       THEN /\ StreamEnd(<<>>, "exhausted", "")
            /\ UNCHANGED <<pulled, next_chunk>>
       ELSE \E o \in PullOutcomes(pulled) :
            \/ /\ o = "chunk"
               /\ pulled' = pulled + 1
               /\ next_chunk' = pulled + 1
               /\ trace' = trace \o <<Ev("pull", pulled + 1)>>
               /\ pc' = "s_tok"
               /\ UNCHANGED result
            \/ /\ o = "end"
               /\ next_chunk' = None
               /\ trace' = trace \o <<Ev("pull", None)>>
               /\ pc' = "s_tok"
               /\ UNCHANGED <<pulled, result>>
            \/ /\ o = "raise"
               /\ StreamEnd(<<Ev("pull_raised", 0)>>, "raised", "chunker error")
               /\ UNCHANGED <<pulled, next_chunk>>
    /\ UNCHANGED <<store, cache, calls, aux, reqArgs, voicepack, current_chunk, is_first,
                   chunks_data, audio_chunks, idx>>

\* Lines 182-185: an exception of the chunk at stage, logged by the inner
\* except; the loop moves on to the next chunk.
ChunkFailed(stage, ev) ==
    IF InnerExceptCatches(stage)
    THEN /\ trace' = trace \o <<ev>>
         /\ current_chunk' = next_chunk
         /\ pc' = "s_loop"
         /\ UNCHANGED result
    ELSE /\ StreamEnd(<<ev>>, "raised", stage)
         /\ UNCHANGED current_chunk

\* Line 159: TTSModel.process_text(current_chunk, voice[0])
StreamTokenize ==
    /\ pc = "s_tok"
    /\ \E ok \in BOOLEAN :
        IF ok
        THEN /\ trace' = trace \o <<Ev("tokenize", current_chunk)>>
             /\ pc' = "s_syn"
             /\ UNCHANGED <<current_chunk, result>>
        ELSE ChunkFailed("tokenize", Ev("tokenize_raised", current_chunk))
    /\ UNCHANGED <<store, cache, calls, aux, reqArgs, voicepack, pulled, next_chunk,
                   is_first, chunks_data, audio_chunks, idx>>

\* Lines 162-164, 179-180: TTSModel.generate_from_tokens(tokens, voicepack, speed)
StreamSynthesize ==
    /\ pc = "s_syn"
    /\ \E o \in SynthOutcomes :
        \/ /\ o = "audio"
           /\ trace' = trace \o <<Ev("synthesize", current_chunk)>>
           /\ pc' = "s_enc"
           /\ UNCHANGED <<current_chunk, result>>
        \/ /\ o = "none"
           /\ trace' = trace \o <<Ev("synthesize_none", current_chunk)>>
           /\ current_chunk' = next_chunk
           /\ pc' = "s_loop"
           /\ UNCHANGED result
        \/ /\ o = "raise"
           /\ ChunkFailed("synthesize", Ev("synthesize_raised", current_chunk))
    /\ UNCHANGED <<store, cache, calls, aux, reqArgs, voicepack, pulled, next_chunk,
                   is_first, chunks_data, audio_chunks, idx>>

\* yield chunk_bytes: the generator is suspended until the consumer acts.
NotSuspended == "s_loop"
SuspendedAtYield == "s_yield"

\* Lines 167-176: AudioService.convert_audio(...), then yield chunk_bytes.
StreamEncode ==
    /\ pc = "s_enc"
    /\ \E ok \in BOOLEAN :
        IF ok
        THEN LET f == IsFirstChunk(is_first)
                 l == IsLastChunk(next_chunk) IN
             /\ trace' = trace \o <<EvFlags("encode", current_chunk, f, l),
                                    EvFlags("yield", current_chunk, f, l)>>
             /\ pc' = SuspendedAtYield
             /\ UNCHANGED <<current_chunk, result>>
        ELSE ChunkFailed("encode", Ev("encode_raised", current_chunk))
    /\ UNCHANGED <<store, cache, calls, aux, reqArgs, voicepack, pulled, next_chunk,
                   is_first, chunks_data, audio_chunks, idx>>

\* The consumer pulls again: lines 177 and 185 run.
ConsumerResume ==
    /\ pc = "s_yield"
    /\ is_first' = IsFirstAfterYield
    /\ current_chunk' = next_chunk
    /\ pc' = "s_loop"
    /\ trace' = trace \o <<Ev("resume", current_chunk)>>
    /\ UNCHANGED <<store, cache, calls, aux, reqArgs, voicepack, pulled, next_chunk,
                   chunks_data, audio_chunks, idx, result>>

\* The consumer closes the generator: GeneratorExit is raised at the yield,
\* passes both except Exception clauses and runs the finally.
ConsumerClose ==
    /\ pc = "s_yield"
    /\ StreamEnd(<<>>, "closed", "GeneratorExit")
    /\ UNCHANGED <<store, cache, calls, aux, reqArgs, reqLocals>>

\* ------------------------------------------------------- _generate_audio
\* The validation of _generate_audio_internal: the message of the ValueError
\* raised, "" when the request passes.
CompleteValidationNoNormCheck(t, normalized, st, v) ==
    IF t = "" THEN "Text is empty after preprocessing"
    ELSE IF _get_voice_path(st, v) = NoPath THEN "Voice not found"
    ELSE ""
CompleteValidation(t, normalized, st, v) ==
    IF t = "" THEN "Text is empty after preprocessing"
    ELSE IF normalized = "" THEN "Text is empty after preprocessing"
    ELSE IF _get_voice_path(st, v) = NoPath THEN "Voice not found"
    ELSE ""

\* finally: cleanup() of _generate_audio.
GenerateAudioFinally == <<Ev("cleanup", 0)>>

\* _generate_audio ends: kind is "returned" or "raised" (the except of
\* _generate_audio_internal logs and re-raises); its finally runs.
CompleteEnd(evs, kind, err, audio) ==
    /\ pc' = "done"
    /\ result' = [kind |-> kind, err |-> err, audio |-> audio]
    /\ trace' = trace \o evs \o GenerateAudioFinally

\* if not chunks_data
NoChunksNeverChecked(cd) == FALSE
NoChunksProcessed(cd) == cd = <<>>

\* if not audio_chunks
NoAudioGenerated(bufs) == bufs = <<>>

\* np.concatenate(audio_chunks) if len(audio_chunks) > 1 else audio_chunks[0]
StitchAlwaysCopies(bufs) == np_concatenate(bufs)
StitchLastOnly(bufs) == bufs[Len(bufs)]
StitchAudio(bufs) == IF Len(bufs) > 1 THEN np_concatenate(bufs) ELSE bufs[1]

\* The whole text as the single chunk of the unstitched call.
WholeText == MaxChunks + 1

\* Lines 57-75: validation, the voice through the cache, the branch on
\* stitch_long_output.
CompleteValidate ==
    /\ pc = "c_validate"
    /\ \E normalized \in NormalizedTexts :
        LET err == CompleteValidation(text, normalized, store, voice)
            nz == IF text = "" THEN <<>>
                  ELSE <<Ev("normalize", IF normalized = "" THEN 0 ELSE 1)>> IN
        IF err # ""
        THEN /\ CompleteEnd(nz, "raised", err, NoAudio)
             /\ UNCHANGED <<cache, voicepack>>
        ELSE LET r == _load_voice(cache, store, _get_voice_path(store, voice)) IN
             /\ cache' = r.cache
             /\ voicepack' = r.value
             /\ trace' = trace \o nz \o <<Ev("load", voice)>>
             /\ pc' = IF stitch THEN "c_split" ELSE "c_single_tok"
             /\ UNCHANGED result
    /\ UNCHANGED <<store, calls, aux, reqArgs, pulled, current_chunk, next_chunk,
                   is_first, chunks_data, audio_chunks, idx>>

\* Lines 78, 86-87: the next chunk of the for loop over split_text; at its
\* end, the check of chunks_data.
CompleteSplit ==
    /\ pc = "c_split"
    /\ \E o \in PullOutcomes(pulled) :
        \/ /\ o = "chunk"
           /\ pulled' = pulled + 1
           /\ current_chunk' = pulled + 1
           /\ trace' = trace \o <<Ev("pull", pulled + 1)>>
           /\ pc' = "c_tok"
           /\ UNCHANGED <<idx, result>>
        \/ /\ o = "end"
           /\ IF NoChunksProcessed(chunks_data)
              THEN /\ CompleteEnd(<<Ev("pull", None)>>, "raised",
                                  "No chunks were processed successfully", NoAudio)
                   /\ UNCHANGED idx
              ELSE /\ trace' = trace \o <<Ev("pull", None)>>
                   /\ idx' = 1
                   /\ pc' = IF Len(chunks_data) >= 1 THEN "c_syn" ELSE "c_join"
                   /\ UNCHANGED result
           /\ UNCHANGED <<pulled, current_chunk>>
        \/ /\ o = "raise"
           /\ CompleteEnd(<<Ev("pull_raised", 0)>>, "raised", "chunker error", NoAudio)
           /\ UNCHANGED <<pulled, current_chunk, idx>>
    /\ UNCHANGED <<store, cache, calls, aux, reqArgs, voicepack, next_chunk, is_first,
                   chunks_data, audio_chunks>>

\* Lines 79-84: TTSModel.process_text(chunk, voice[0]); a failure is logged
\* and the chunk left out of chunks_data.
CompleteTokenize ==
    /\ pc = "c_tok"
    /\ \E ok \in BOOLEAN :
        IF ok
        THEN /\ chunks_data' = Append(chunks_data,
                                      [chunk |-> current_chunk, tokens |-> current_chunk])
             /\ trace' = trace \o <<Ev("tokenize", current_chunk)>>
        ELSE /\ trace' = trace \o <<Ev("tokenize_raised", current_chunk)>>
             /\ UNCHANGED chunks_data
    /\ pc' = "c_split"
    /\ UNCHANGED <<store, cache, calls, aux, reqArgs, voicepack, pulled, current_chunk,
                   next_chunk, is_first, audio_chunks, idx, result>>

\* Lines 91-100: TTSModel.generate_from_tokens for the next entry of
\* chunks_data; nothing or an exception is logged and the chunk left out.
CompleteSynthesize ==
    /\ pc = "c_syn"
    /\ idx <= Len(chunks_data)
    /\ LET d == chunks_data[idx] IN
       \E o \in SynthOutcomes :
        \/ /\ o = "audio"
           /\ audio_chunks' = Append(audio_chunks, Buffer(d.tokens))
           /\ trace' = trace \o <<Ev("synthesize", d.chunk)>>
        \/ /\ o = "none"
           /\ trace' = trace \o <<Ev("synthesize_none", d.chunk)>>
           /\ UNCHANGED audio_chunks
        \/ /\ o = "raise"
           /\ trace' = trace \o <<Ev("synthesize_raised", d.chunk)>>
           /\ UNCHANGED audio_chunks
    /\ idx' = idx + 1
    /\ pc' = IF idx + 1 <= Len(chunks_data) THEN "c_syn" ELSE "c_join"
    /\ UNCHANGED <<store, cache, calls, aux, reqArgs, voicepack, pulled, current_chunk,
                   next_chunk, is_first, chunks_data, result>>

\* Lines 102-106, 114-115: the check of audio_chunks, the concatenation, the
\* return.
CompleteJoin ==
    /\ pc = "c_join"
    /\ IF NoAudioGenerated(audio_chunks)
       THEN CompleteEnd(<<>>, "raised", "No audio chunks were generated successfully",
                        NoAudio)
       ELSE CompleteEnd(<<>>, "returned", "", StitchAudio(audio_chunks))
    /\ UNCHANGED <<store, cache, calls, aux, reqArgs, reqLocals>>

\* Line 109: TTSModel.process_text(text, voice[0]) of the unstitched call.
CompleteSingleTokenize ==
    /\ pc = "c_single_tok"
    /\ \E ok \in BOOLEAN :
        IF ok
        THEN /\ trace' = trace \o <<Ev("tokenize", WholeText)>>
             /\ pc' = "c_single_syn"
             /\ UNCHANGED result
        ELSE CompleteEnd(<<Ev("tokenize_raised", WholeText)>>, "raised",
                         "process_text error", NoAudio)
    /\ UNCHANGED <<store, cache, calls, aux, reqArgs, reqLocals>>

\* Lines 111-115: generate_from_tokens, cleanup(verbose=True), the return.
CompleteSingleSynthesize ==
    /\ pc = "c_single_syn"
    /\ \E o \in SynthOutcomes :
        \/ /\ o = "audio"
           /\ CompleteEnd(<<Ev("synthesize", WholeText), Ev("cleanup", 1)>>,
                          "returned", "", Buffer(WholeText))
        \/ /\ o = "none"
           /\ CompleteEnd(<<Ev("synthesize_none", WholeText), Ev("cleanup", 1)>>,
                          "returned", "", NoAudio)
        \/ /\ o = "raise"
           /\ CompleteEnd(<<Ev("synthesize_raised", WholeText)>>, "raised",
                          "generate_from_tokens error", NoAudio)
    /\ UNCHANGED <<store, cache, calls, aux, reqArgs, reqLocals>>

Next ==
    \/ StartStream
    \/ StartComplete
    \/ StreamValidate
    \/ StreamFirstPull
    \/ StreamLoop
    \/ StreamTokenize
    \/ StreamSynthesize
    \/ StreamEncode
    \/ ConsumerResume
    \/ ConsumerClose
    \/ CompleteValidate
    \/ CompleteSplit
    \/ CompleteTokenize
    \/ CompleteSynthesize
    \/ CompleteJoin
    \/ CompleteSingleTokenize
    \/ CompleteSingleSynthesize

Spec == Init /\ [][Next]_vars

\* ------------------------------------------------------ the cache alone
\* A direct call _load_voice(voice_path), by any caller, recorded with the
\* keys of the cache before the call.
LoadVoiceCall ==
    /\ Len(calls) < MaxCalls
    /\ \E v \in VoiceNames :
        LET r == _load_voice(cache, store, VoiceFile(v)) IN
        /\ cache' = r.cache
        /\ calls' = Append(calls, [path |-> VoiceFile(v), before |-> CacheKeys(cache),
                                   value |-> r.value, read |-> r.read,
                                   raised |-> r.raised])
    /\ UNCHANGED <<store, aux, pc, reqArgs, reqLocals, trace, result>>

NextCache == LoadVoiceCall

SpecCache == Init /\ [][NextCache]_vars

\* ------------------------------------------- _load_voice from threads
\* lru_cache after the wrapped function has returned: the result is inserted
\* unless the same key was added to the cache in the meantime.
InsertWithoutRecheck(c, entry) == CacheInsert(c, entry)
InsertAfterLoad(c, entry) == IF CacheHas(c, entry.path) THEN c ELSE CacheInsert(c, entry)

\* The voices the threads ask for: one more than the cache holds, and one
\* with no file.
LoadVoices == (1..(n_cache_voices + 1)) \cup {MissingVoice}

\* A thread calls _load_voice(voice_path): the lookup of lru_cache. A hit
\* returns at once; a miss goes on to call torch.load outside the cache.
LoadBegin(t) ==
    /\ thr[t].pc \in {"idle", "returned", "raised"}
    /\ \E v \in LoadVoices :
        LET voice_path == VoiceFile(v) IN
        IF CacheHas(cache, voice_path)
        THEN LET i == CacheIndex(cache, voice_path) IN
             /\ cache' = CacheTouch(cache, i)
             /\ thr' = [thr EXCEPT ![t] = [pc |-> "returned", arg |-> voice_path,
                                           value |-> cache[i].emb, read |-> FALSE]]
        ELSE /\ thr' = [thr EXCEPT ![t] = [pc |-> "reading", arg |-> voice_path,
                                           value |-> NoVoice, read |-> FALSE]]
             /\ UNCHANGED cache
    /\ UNCHANGED <<store, calls, pc, reqArgs, reqLocals, trace, result, ctor,
                   instance, objects, vlocals, streamed>>

\* torch.load(voice_path, ...) of the thread's call; no file raises.
LoadRead(t) ==
    /\ thr[t].pc = "reading"
    /\ LET emb == torch_load(store, thr[t].arg) IN
       thr' = [thr EXCEPT ![t].pc = IF emb = NoVoice THEN "raised" ELSE "inserting",
                          ![t].value = emb, ![t].read = TRUE]
    /\ UNCHANGED <<store, cache, calls, pc, reqArgs, reqLocals, trace, result, ctor,
                   instance, objects, vlocals, streamed>>

\* The insertion of lru_cache after the load, and the return.
LoadInsert(t) ==
    /\ thr[t].pc = "inserting"
    /\ cache' = InsertAfterLoad(cache, [path |-> thr[t].arg, emb |-> thr[t].value])
    /\ thr' = [thr EXCEPT ![t].pc = "returned"]
    /\ UNCHANGED <<store, calls, pc, reqArgs, reqLocals, trace, result, ctor,
                   instance, objects, vlocals, streamed>>

NextLoad == \E t \in Threads : LoadBegin(t) \/ LoadRead(t) \/ LoadInsert(t)

SpecLoad == Init /\ [][NextLoad]_vars

\* ------------------------------------------------------ combine_voices
TooFewVoices == "At least 2 voices are required for combination"
LoadFailed == "Failed to load voice"
SaveFailed == "Failed to save combined voice"
CombineFailed == "Error combining voices"

\* The class of the exception carrying a message of combine_voices.
ExceptionType(err) ==
    IF err \in {TooFewVoices, LoadFailed} THEN "ValueError" ELSE "RuntimeError"

\* What a call of combine_voices or list_voices never touches.
storeFrame == <<cache, calls, conc, streamed, text, voice, stitch, reqLocals>>

\* The locals of the synthesis requests, as they are before a request.
ResetSynthesis ==
    /\ text' = ""
    /\ voice' = 1
    /\ stitch' = TRUE
    /\ voicepack' = NoVoice
    /\ pulled' = 0
    /\ current_chunk' = None
    /\ next_chunk' = None
    /\ is_first' = TRUE
    /\ chunks_data' = <<>>
    /\ audio_chunks' = <<>>
    /\ idx' = 0

\* The locals of combine_voices and list_voices, as they are before a call.
ResetVoiceLocals ==
    /\ voices' = <<>>
    /\ t_voices' = <<>>
    /\ v_name' = <<>>
    /\ listing' = <<>>
    /\ scan_left' = {}
    /\ listed' = <<>>
    /\ combined' = None

\* combine_voices raises.
CombineRaise(evs, err) ==
    /\ pc' = "done"
    /\ trace' = trace \o evs
    /\ result' = [kind |-> "raised", err |-> err, audio |-> NoAudio]

\* finally: cleanup() around torch.save, whether it saved or raised.
CombineFinallyOnSuccess(saved) == IF saved THEN <<Ev("cleanup", 0)>> ELSE <<>>
CombineFinally(saved) == <<Ev("cleanup", 0)>>

\* len(voices) < 2
TooFew(vs) == Len(vs) < 2

\* A call combine_voices(voices).
CombineStart ==
    /\ pc \in {"idle", "done"}
    /\ \E vs \in CombineArgs : voices' = vs
    /\ op' = "combine"
    /\ pc' = "v_check"
    /\ trace' = <<>>
    /\ result' = NoResult
    /\ ResetSynthesis
    /\ t_voices' = <<>>
    /\ v_name' = <<>>
    /\ listing' = <<>>
    /\ scan_left' = {}
    /\ listed' = <<>>
    /\ combined' = None
    /\ UNCHANGED <<store, cache, calls, conc, streamed>>

\* Lines 206-211: the check of the number of names.
CombineCheck ==
    /\ pc = "v_check"
    /\ IF TooFew(voices)
       THEN CombineRaise(<<>>, TooFewVoices)
       ELSE /\ pc' = "v_load"
            /\ UNCHANGED <<trace, result>>
    /\ UNCHANGED <<store, op, vlocals, storeFrame>>

\* Lines 213-222: one turn of the loop, a direct torch.load of the next voice.
CombineLoad ==
    /\ pc = "v_load"
    /\ LET v == voices[Len(v_name) + 1]
           voicepack_ == torch_load(store, VoiceFile(v)) IN
       IF voicepack_ = NoVoice
       THEN /\ CombineRaise(<<Ev("torch_load_raised", v)>>, LoadFailed)
            /\ UNCHANGED <<t_voices, v_name>>
       ELSE /\ t_voices' = Append(t_voices, voicepack_)
            /\ v_name' = Append(v_name, v)
            /\ trace' = Append(trace, Ev("torch_load", v))
            /\ pc' = IF Len(v_name) + 1 = Len(voices) THEN "v_stack" ELSE "v_load"
            /\ UNCHANGED result
    /\ UNCHANGED <<store, op, voices, listing, scan_left, listed, combined, storeFrame>>

\* Lines 226-228: the joined name and the mean; torch.stack / torch.mean may
\* raise, which the outer except turns into a RuntimeError.
CombineStack ==
    /\ pc = "v_stack"
    /\ \E raises \in BOOLEAN :
        IF raises
        THEN CombineRaise(<<Ev("stack_raised", 0)>>, CombineFailed)
        ELSE /\ pc' = "v_save"
             /\ trace' = Append(trace, Ev("stack", JoinNames(v_name)))
             /\ UNCHANGED result
    /\ UNCHANGED <<store, op, vlocals, storeFrame>>

\* Lines 231-240: torch.save, its except and finally, and the return.
CombineSave ==
    /\ pc = "v_save"
    /\ LET f == JoinNames(v_name)
           v == torch_mean(t_voices) IN
       \E saved \in BOOLEAN :
        IF saved
        THEN /\ store' = [store EXCEPT ![f] = v]
             /\ trace' = trace \o <<Ev("torch_save", f)>> \o CombineFinally(saved)
             /\ combined' = f
             /\ result' = [kind |-> "returned", err |-> "", audio |-> NoAudio]
             /\ pc' = "done"
        ELSE /\ CombineRaise(<<Ev("torch_save_raised", f)>> \o CombineFinally(saved),
                             SaveFailed)
             /\ UNCHANGED <<store, combined>>
    /\ UNCHANGED <<op, voices, t_voices, v_name, listing, scan_left, listed, storeFrame>>

\* ---------------------------------------------------------- list_voices
\* list_voices returns sorted(voices).
ListReturn(evs) ==
    /\ pc' = "done"
    /\ trace' = trace \o evs
    /\ listed' = sorted(listing)
    /\ result' = [kind |-> "returned", err |-> "", audio |-> NoAudio]

\* A call list_voices().
ListStart ==
    /\ pc \in {"idle", "done"}
    /\ op' = "list"
    /\ pc' = "l_scandir"
    /\ trace' = <<>>
    /\ result' = NoResult
    /\ ResetSynthesis
    /\ ResetVoiceLocals
    /\ UNCHANGED <<store, cache, calls, conc, streamed>>

\* Line 251: it = await aiofiles.os.scandir(VOICES_DIR), which may raise.
ListScandir ==
    /\ pc = "l_scandir"
    /\ \E raises \in BOOLEAN :
        IF raises
        THEN /\ ListReturn(<<Ev("scandir_raised", 0), Ev("log_error", 0)>>)
             /\ UNCHANGED scan_left
        ELSE /\ scan_left' = DirEntries(store)
             /\ pc' = "l_iter"
             /\ trace' = Append(trace, Ev("scandir", 0))
             /\ UNCHANGED <<listed, result>>
    /\ UNCHANGED <<store, op, voices, t_voices, v_name, listing, combined, storeFrame>>

\* Lines 252-254: one turn of the loop over the iterator, which gives the
\* entries in any order, ends, or raises.
ListNext ==
    /\ pc = "l_iter"
    /\ \/ /\ scan_left = {}
          /\ ListReturn(<<>>)
          /\ UNCHANGED <<listing, scan_left>>
       \/ \E entry \in scan_left :
          /\ scan_left' = scan_left \ {entry}
          /\ listing' = IF EndsWithPt(entry) THEN Append(listing, StripPt(entry))
                        ELSE listing
          /\ trace' = Append(trace, Ev("entry", StripPt(entry)))
          /\ UNCHANGED <<pc, listed, result>>
       \/ /\ scan_left # {}
          /\ ListReturn(<<Ev("next_raised", 0), Ev("log_error", 0)>>)
          /\ UNCHANGED <<listing, scan_left>>
    /\ UNCHANGED <<store, op, voices, t_voices, v_name, combined, storeFrame>>

\* ------------------------------------------- requests for stored voices
\* A call generate_audio_stream(text, voice) for any name of the store.
StoredStreamStart ==
    /\ pc \in {"idle", "done"}
    /\ \E v \in StoreNames : voice' = v
    /\ op' = "stream"
    /\ text' = "raw"
    /\ stitch' = TRUE
    /\ pc' = "s_validate"
    /\ voicepack' = NoVoice
    /\ pulled' = 0
    /\ current_chunk' = None
    /\ next_chunk' = None
    /\ is_first' = TRUE
    /\ chunks_data' = <<>>
    /\ audio_chunks' = <<>>
    /\ idx' = 0
    /\ trace' = <<>>
    /\ result' = NoResult
    /\ ResetVoiceLocals
    /\ UNCHANGED <<store, cache, calls, conc, streamed>>

\* The voice store under combine_voices, with the requests that load voices
\* through the cache, up to their first chunk.
NextStore ==
    \/ CombineStart \/ CombineCheck \/ CombineLoad \/ CombineStack \/ CombineSave
    \/ StoredStreamStart \/ StreamValidate \/ StreamFirstPull \/ StreamLoop

SpecStore == Init /\ [][NextStore]_vars

\* The voice store under combine_voices and list_voices.
NextList ==
    \/ CombineStart \/ CombineCheck \/ CombineLoad \/ CombineStack \/ CombineSave
    \/ ListStart \/ ListScandir \/ ListNext

SpecList == Init /\ [][NextList]_vars

\* ------------------------------------------------- TTSService.__new__
\* A thread calls TTSService(output_dir).
CtorCall(t) ==
    /\ ctor[t].pc \in {"idle", "returned"}
    /\ ctor[t].n < MaxThreadCalls
    /\ \E d \in OutputDirs :
        ctor' = [ctor EXCEPT ![t] = [pc |-> "test", arg |-> d, value |-> None,
                                     n |-> @.n + 1]]
    /\ UNCHANGED <<store, cache, calls, pc, reqArgs, reqLocals, trace, result, thr,
                   instance, objects, vlocals, streamed>>

\* Line 25: if cls._instance is None
CtorTest(t) ==
    /\ ctor[t].pc = "test"
    /\ ctor' = [ctor EXCEPT ![t].pc = IF instance = None THEN "create" ELSE "return"]
    /\ UNCHANGED <<store, cache, calls, pc, reqArgs, reqLocals, trace, result, thr,
                   instance, objects, vlocals, streamed>>

\* Line 26: cls._instance = super(TTSService, cls).__new__(cls)
CtorCreate(t) ==
    /\ ctor[t].pc = "create"
    /\ objects' = Append(objects, NoDir)
    /\ instance' = Len(objects) + 1
    /\ ctor' = [ctor EXCEPT ![t].pc = "setdir"]
    /\ UNCHANGED <<store, cache, calls, pc, reqArgs, reqLocals, trace, result, thr,
                   vlocals, streamed>>

\* Line 27: cls._instance.output_dir = output_dir
CtorSetDir(t) ==
    /\ ctor[t].pc = "setdir"
    /\ objects' = [objects EXCEPT ![instance] = ctor[t].arg]
    /\ ctor' = [ctor EXCEPT ![t].pc = "return"]
    /\ UNCHANGED <<store, cache, calls, pc, reqArgs, reqLocals, trace, result, thr,
                   instance, vlocals, streamed>>

\* Line 28: return cls._instance
CtorReturn(t) ==
    /\ ctor[t].pc = "return"
    /\ ctor' = [ctor EXCEPT ![t].pc = "returned", ![t].value = instance]
    /\ UNCHANGED <<store, cache, calls, pc, reqArgs, reqLocals, trace, result, thr,
                   instance, objects, vlocals, streamed>>

NextCtor ==
    \E t \in Threads :
        CtorCall(t) \/ CtorTest(t) \/ CtorCreate(t) \/ CtorSetDir(t) \/ CtorReturn(t)

SpecCtor == Init /\ [][NextCtor]_vars

\* ------------------------------------------- one text through both paths
\* The calls of the stubs (normalize_text, chunker.split_text, process_text,
\* generate_from_tokens) the request has made so far gave what the same
\* calls gave in the collected stream: the stubs are deterministic.
AgreesWithStream ==
    /\ text = streamed.text
    /\ voice = streamed.voice
    /\ \A i \in 1..Len(trace) :
        LET e == trace[i]
            same == \E j \in 1..Len(streamed.trace) :
                        streamed.trace[j].ev = e.ev /\ streamed.trace[j].k = e.k IN
        IF e.ev \in {"normalize", "pull", "tokenize", "tokenize_raised",
                     "synthesize", "synthesize_none", "synthesize_raised"}
        THEN /\ same
             /\ (e.ev = "pull" /\ e.k = None) =>
                    ~\E j \in 1..Len(streamed.trace) :
                        streamed.trace[j].ev = "pull" /\ streamed.trace[j].k > pulled
        ELSE e.ev # "pull_raised"

\* A streaming request whose consumer will collect it to its end.
EquivStreamStart ==
    /\ streamed = NoStream
    /\ NewRequest("stream", "raw", 1, TRUE)
    /\ pc' = "s_validate"

\* The consumer has pulled the stream to its end and keeps what it got.
CollectStream ==
    /\ streamed = NoStream
    /\ op = "stream" /\ pc = "done" /\ result.kind = "exhausted"
    /\ streamed' = [text |-> text, voice |-> voice, trace |-> trace]
    /\ UNCHANGED <<store, cache, calls, pc, reqArgs, reqLocals, trace, result, conc,
                   vlocals>>

\* The stitched non-streaming call for the text and voice of the stream.
EquivStart ==
    /\ streamed # NoStream
    /\ NewRequest("complete", streamed.text, streamed.voice, TRUE)
    /\ pc' = "c_validate"

EquivValidate == CompleteValidate /\ AgreesWithStream'
EquivSplit == CompleteSplit /\ AgreesWithStream'
EquivTokenize == CompleteTokenize /\ AgreesWithStream'
EquivSynthesize == CompleteSynthesize /\ AgreesWithStream'

NextEquiv ==
    \/ EquivStreamStart \/ StreamValidate \/ StreamFirstPull \/ StreamLoop
    \/ StreamTokenize \/ StreamSynthesize \/ StreamEncode \/ ConsumerResume
    \/ CollectStream
    \/ EquivStart \/ EquivValidate \/ EquivSplit \/ EquivTokenize
    \/ EquivSynthesize \/ CompleteJoin

SpecEquiv == Init /\ [][NextEquiv]_vars

\* ------------------------------------------------------------- scheduling
\* The steps of a streaming request past its start: the generator's own
\* steps, which the interpreter runs one after the other up to the next
\* yield, and the consumer's answer to a yield, pulling again or closing.
StreamStep ==
    \/ StreamValidate \/ StreamFirstPull \/ StreamLoop \/ StreamTokenize
    \/ StreamSynthesize \/ StreamEncode \/ ConsumerResume \/ ConsumerClose

\* Requests for one stored voice: streams and stitched non-streaming calls.
FairStreamStart ==
    /\ NewRequest("stream", "raw", 1, TRUE)
    /\ pc' = "s_validate"

FairCompleteStart ==
    /\ NewRequest("complete", "raw", 1, TRUE)
    /\ pc' = "c_validate"

NextFair ==
    \/ FairStreamStart \/ FairCompleteStart
    \/ StreamValidate \/ StreamFirstPull \/ StreamLoop \/ StreamTokenize
    \/ StreamSynthesize \/ StreamEncode \/ ConsumerResume \/ ConsumerClose
    \/ CompleteValidate \/ CompleteSplit \/ CompleteTokenize
    \/ CompleteSynthesize \/ CompleteJoin

\* These requests, with a streaming request never left standing while it has
\* a step to take.
SpecFair == Init /\ [][NextFair]_vars /\ WF_vars(StreamStep)

\* ------------------------------------------------------------ observations
HasEv(e, k) == \E i \in 1..Len(trace) : trace[i].ev = e /\ trace[i].k = k
HasAny(e) == \E i \in 1..Len(trace) : trace[i].ev = e
CountEv(e) == Len(SelectSeq(trace, LAMBDA x : x.ev = e))

\* The byte chunks the generator has yielded, in order.
Yields == SelectSeq(trace, LAMBDA x : x.ev = "yield")
YieldedChunks == [i \in 1..Len(Yields) |-> Yields[i].k]

ValidationErrors ==
    {"Text is empty", "Text is empty after preprocessing", "Voice not found"}

\* The request is past its validation and the chunker never raised.
PassedValidation == HasAny("load")
ChunkerCompleted == ~HasAny("pull_raised")

\* Chunk k failed: tokenize or synthesize or the encoder raised, or synthesis
\* returned nothing.
Failed(k) ==
    \/ HasEv("tokenize_raised", k)
    \/ HasEv("synthesize_raised", k)
    \/ HasEv("synthesize_none", k)
    \/ HasEv("encode_raised", k)

\* The members of a set of chunks, in ascending order.
RECURSIVE Ascending(_)
Ascending(S) ==
    IF S = {} THEN <<>>
    ELSE LET m == CHOOSE x \in S : \A y \in S : x >= y IN
         Ascending(S \ {m}) \o <<m>>

StreamExhausted == op = "stream" /\ pc = "done" /\ result.kind = "exhausted"

\* --------------------------------------------------------------------- C1
\* C1: in generate_audio_stream the earliest yielded byte chunk is encoded
\* with is_first_chunk = true and every later yielded byte chunk with
\* is_first_chunk = false, whatever chunks failed before or between them.
C1_FirstTagOnFirstYieldOnly ==
    op = "stream" =>
        \A i \in 1..Len(Yields) : Yields[i].first = (i = 1)

\* Two chunks were yielded and the first yielded one is not chunk 1 (chunk 1
\* failed).
C1_Witness ==
    /\ op = "stream"
    /\ Len(Yields) >= 2
    /\ Yields[1].k > 1
    /\ Failed(1)

\* --------------------------------------------------------------------- C2
\* C2: in a stream that ran to its end and yielded at least one byte chunk,
\* the final yielded byte chunk is encoded with is_last_chunk = true and no
\* earlier one is; a single yielded chunk is both first and last, and the
\* chunks between the first and the last yielded are neither.
C2_LastTagOnFinalYield ==
    (StreamExhausted /\ Len(Yields) >= 1) =>
        /\ Yields[Len(Yields)].last
        /\ \A i \in 1..(Len(Yields) - 1) : ~Yields[i].last
        /\ Len(Yields) = 1 => (Yields[1].first /\ Yields[1].last)
        /\ \A i \in 2..(Len(Yields) - 1) : ~Yields[i].first /\ ~Yields[i].last

\* --------------------------------------------------------------------- C3
\* C3: after validation, a chunk whose synthesis raises or returns nothing is
\* skipped and the stream goes on: no failure of a chunk makes the generator
\* raise, every chunk processed so far was yielded exactly when it did not
\* fail, in chunk order, and a stream pulled to its end over n chunks of
\* which the set F failed has yielded n - |F| byte chunks and ended normally.
C3_SoftFailuresSkipped ==
    (op = "stream" /\ PassedValidation) =>
        /\ result.kind = "raised" => result.err = "chunker error"
        /\ \A i \in 1..Len(Yields) : ~Failed(Yields[i].k)
        /\ \A i, j \in 1..Len(Yields) : i < j => Yields[i].k < Yields[j].k
        /\ (pc = "done" /\ ChunkerCompleted /\ result.kind # "closed") =>
              /\ result.kind = "exhausted"
              /\ YieldedChunks = Ascending({k \in 1..pulled : ~Failed(k)})
              /\ Len(Yields) = pulled - Cardinality({k \in 1..pulled : Failed(k)})

\* Synthesis raised on chunk 2 of 3: exactly chunks 1 and 3 were yielded and
\* the generator ended normally.
C3_Witness ==
    /\ StreamExhausted
    /\ pulled = 3
    /\ HasEv("synthesize_raised", 2)
    /\ YieldedChunks = <<1, 3>>

\* --------------------------------------------------------------------- C4
\* C4 as stated: an exception of tokenize for a chunk ends the stream: the
\* generator raises and nothing but the cleanup follows.
C4_TokenizeErrorAborts ==
    op = "stream" =>
        \A i \in 1..Len(trace) :
            trace[i].ev = "tokenize_raised" =>
                /\ pc = "done"
                /\ result.kind = "raised"
                /\ \A j \in (i + 1)..Len(trace) : trace[j].ev = "cleanup"

\* C4 amended: an exception of tokenize for a chunk is a soft failure: the
\* chunk is not synthesized, encoded or yielded, the generator does not raise
\* because of it, and a stream pulled to its end has tokenized (or tried to)
\* every chunk of the sequence, the ones after the failing chunk included.
C4_TokenizeErrorSkipsChunk ==
    op = "stream" =>
        \A i \in 1..Len(trace) :
            trace[i].ev = "tokenize_raised" =>
                LET k == trace[i].k IN
                /\ ~HasEv("synthesize", k) /\ ~HasEv("encode", k) /\ ~HasEv("yield", k)
                /\ result.kind = "raised" => result.err = "chunker error"
                /\ StreamExhausted =>
                      \A c \in 1..pulled :
                          HasEv("tokenize", c) \/ HasEv("tokenize_raised", c)

\* tokenize raised on chunk 1 and chunk 2 was yielded after it.
C4_Witness ==
    /\ op = "stream"
    /\ HasEv("tokenize_raised", 1)
    /\ HasEv("yield", 2)
    /\ result.kind = "none"

\* --------------------------------------------------------------------- C5
\* C5: the cleanup hook of a streaming request has not run while the
\* generator is live, and has run exactly once, as the last thing done, when
\* the generator has ended: exhausted, raised or closed at a yield.
C5_StreamCleanupOnceAtEnd ==
    op = "stream" =>
        /\ pc # "done" => CountEv("cleanup") = 0
        /\ pc = "done" =>
              /\ CountEv("cleanup") = 1
              /\ trace[Len(trace)].ev = "cleanup"
              /\ result.kind \in {"exhausted", "raised", "closed"}

\* The consumer closed the generator at its second yield; cleanup ran once.
C5_Witness ==
    /\ op = "stream"
    /\ pc = "done"
    /\ result.kind = "closed"
    /\ Len(Yields) = 2
    /\ CountEv("cleanup") = 1

\* --------------------------------------------------------------------- C6
\* C6: a finished _generate_audio request, stitched or not, has run the
\* cleanup hook exactly once, after the synthesis work, on every exit path.
C6_CompleteCleanupOnce ==
    (op = "complete" /\ pc = "done") =>
        /\ CountEv("cleanup") = 1
        /\ trace[Len(trace)].ev = "cleanup"

\* --------------------------------------------------------------------- C7
\* A stitched _generate_audio request that passed validation and whose
\* chunker ran to the end of the sequence has finished.
StitchedFinished ==
    op = "complete" /\ stitch /\ pc = "done" /\ PassedValidation /\ ChunkerCompleted

\* Chunk k survives: its tokenization did not raise and its synthesis neither
\* raised nor returned nothing.
Survived(k) ==
    /\ ~HasEv("tokenize_raised", k)
    /\ ~HasEv("synthesize_raised", k)
    /\ ~HasEv("synthesize_none", k)

Survivors == {k \in 1..pulled : Survived(k)}
Tokenized == {k \in 1..pulled : HasEv("tokenize", k)}

\* The samples of the given chunks' buffers, one after the other.
RECURSIVE SamplesOf(_)
SamplesOf(cs) == IF cs = <<>> THEN <<>> ELSE Samples(Head(cs)) \o SamplesOf(Tail(cs))

\* C7: in the stitched path the buffers collected are those of the surviving
\* chunks in chunk order; when at least one chunk survives the call returns,
\* and the audio returned holds the survivors' samples in chunk order; with
\* exactly one survivor it is that chunk's own buffer.
C7_StitchedAudioIsSurvivors ==
    StitchedFinished =>
        LET surv == Ascending(Survivors) IN
        /\ audio_chunks = [i \in 1..Len(surv) |-> Buffer(surv[i])]
        /\ Survivors # {} =>
              /\ result.kind = "returned"
              /\ result.audio.samples = SamplesOf(surv)
              /\ Len(surv) = 1 => result.audio = Buffer(surv[1])

\* Chunk 2 of 3 failed: the audio returned is chunk 1's samples followed by
\* chunk 3's.
C7_Witness ==
    /\ StitchedFinished
    /\ pulled = 3
    /\ Survivors = {1, 3}
    /\ result.kind = "returned"
    /\ result.audio.samples = Samples(1) \o Samples(3)

\* --------------------------------------------------------------------- C8
\* C8: the stitched path raises exactly when no chunk survives: "no chunks
\* processed", without any synthesize call, when tokenization failed for
\* every chunk; "no audio generated" when some chunk was tokenized and
\* synthesis failed or returned nothing for each of them; and an error
\* returns no audio.
C8_ZeroSurvivorsRaise ==
    StitchedFinished =>
        /\ (result.kind = "raised") = (Survivors = {})
        /\ Tokenized = {} =>
              /\ result.err = "No chunks were processed successfully"
              /\ ~HasAny("synthesize") /\ ~HasAny("synthesize_none")
              /\ ~HasAny("synthesize_raised")
        /\ (Tokenized # {} /\ Survivors = {}) =>
              result.err = "No audio chunks were generated successfully"
        /\ result.kind = "raised" => result.audio = NoAudio

\* Three chunks: tokenization failed for one, synthesis returned nothing for
\* another and raised for the third; the call raised "no audio generated".
C8_Witness ==
    /\ StitchedFinished
    /\ pulled = 3
    /\ Cardinality(Tokenized) = 2
    /\ HasAny("synthesize_none")
    /\ HasAny("synthesize_raised")
    /\ result.kind = "raised"
    /\ result.err = "No audio chunks were generated successfully"

\* --------------------------------------------------------------------- C9
\* The request is invalid: empty text, text empty after normalization, or a
\* voice without a file in the store.
InvalidRequest ==
    \/ text = ""
    \/ HasEv("normalize", 0)
    \/ _get_voice_path(store, voice) = NoPath

\* C9: on both paths an invalid request has, once validated, ended with a
\* validation error, and has done nothing but normalize the text and clean
\* up: no voice loaded, no chunk pulled, no tokenize, synthesize or encode
\* call, and no byte chunk yielded.
C9_InvalidRejectedBeforeWork ==
    (op # "none" /\ pc \notin {"s_validate", "c_validate"} /\ InvalidRequest) =>
        /\ pc = "done"
        /\ result.kind = "raised"
        /\ result.err \in ValidationErrors
        /\ \A i \in 1..Len(trace) : trace[i].ev \in {"normalize", "cleanup"}
        /\ Yields = <<>>

\* A streaming request for a voice without a file, made when the cache held
\* entries, was rejected with "Voice not found".
C9_Witness ==
    /\ op = "stream"
    /\ voice = MissingVoice
    /\ HasEv("normalize", 1)
    /\ cache # <<>>
    /\ result.kind = "raised"
    /\ result.err = "Voice not found"

\* -------------------------------------------------------------------- C10
\* The paths of the calls that loaded or found an embedding, in call order.
OkPaths ==
    LET ok == SelectSeq(calls, LAMBDA e : ~e.raised) IN
    [i \in 1..Len(ok) |-> ok[i].path]

\* The distinct paths of a sequence of calls, least recently used first.
RECURSIVE Recency(_)
Recency(ps) ==
    IF ps = <<>> THEN <<>>
    ELSE LET p == ps[Len(ps)] IN
         SelectSeq(Recency(SubSeq(ps, 1, Len(ps) - 1)), LAMBDA x : x # p) \o <<p>>

LastN(ps, n) == IF Len(ps) > n THEN SubSeq(ps, Len(ps) - n + 1, Len(ps)) ELSE ps

Distinct(ps) == \A i, j \in 1..Len(ps) : i # j => ps[i] # ps[j]

\* The keys of the cache after the i-th call.
KeysAfter(i) == IF i = Len(calls) THEN CacheKeys(cache) ELSE calls[i + 1].before

\* C10: the cache never holds more than n_cache_voices entries, nor a path
\* twice; it holds the n_cache_voices most recently used paths; a miss on a
\* full cache removes the least recently used entry, and only it, and adds
\* the new one; and n_cache_voices + 1 distinct paths loaded into the empty
\* cache leave all of them but the first.
C10_CapacityAndLruEviction ==
    /\ Len(cache) <= n_cache_voices
    /\ Distinct(CacheKeys(cache))
    /\ CacheKeys(cache) = LastN(Recency(OkPaths), n_cache_voices)
    /\ \A i \in 1..Len(calls) :
          (calls[i].read /\ ~calls[i].raised /\ Len(calls[i].before) = n_cache_voices) =>
              KeysAfter(i) = Tail(calls[i].before) \o <<calls[i].path>>
    /\ (Len(calls) = n_cache_voices + 1 /\ OkPaths = CacheKeys(calls) /\ Distinct(OkPaths)) =>
          CacheKeys(cache) = Tail(OkPaths)

\* n_cache_voices + 1 distinct paths were loaded: the first one is gone and
\* the others are cached.
C10_Witness ==
    /\ Len(calls) = n_cache_voices + 1
    /\ OkPaths = CacheKeys(calls)
    /\ Distinct(OkPaths)
    /\ ~CacheHas(cache, calls[1].path)
    /\ \A i \in 2..Len(calls) : CacheHas(cache, calls[i].path)

\* -------------------------------------------------------------------- C11
Range(ps) == {ps[i] : i \in 1..Len(ps)}

\* The i-th call found its path in the cache.
IsHit(i) == calls[i].path \in Range(calls[i].before)

\* The latest call before the i-th one for the same path.
LastCallFor(i) ==
    CHOOSE j \in 1..(i - 1) :
        /\ calls[j].path = calls[i].path
        /\ \A m \in (j + 1)..(i - 1) : calls[m].path # calls[i].path

\* C11: a _load_voice call for a path that is in the cache reads no storage
\* and returns the embedding the previous call for that path returned; it
\* leaves the set of cached keys as it was, makes the path the most recently
\* used entry with the other entries in their order, and, when another entry
\* is cached, the path is still cached after the next call.
C11_HitReturnsCachedAndTouches ==
    \A i \in 1..Len(calls) :
        IsHit(i) =>
            LET e == calls[i]
                after == KeysAfter(i) IN
            /\ ~e.read /\ ~e.raised
            /\ e.value = calls[LastCallFor(i)].value
            /\ Range(after) = Range(e.before)
            /\ after = SelectSeq(e.before, LAMBDA x : x # e.path) \o <<e.path>>
            /\ (i < Len(calls) /\ Len(e.before) >= 2) => e.path \in Range(KeysAfter(i + 1))

\* A hit on the least recently used entry of a full cache, then a miss: the
\* entry that was hit stays, the other one is evicted.
C11_Witness ==
    \E i \in 1..(Len(calls) - 1) :
        /\ IsHit(i)
        /\ Len(calls[i].before) = n_cache_voices
        /\ calls[i].before[1] = calls[i].path
        /\ calls[i + 1].read /\ ~calls[i + 1].raised
        /\ calls[i].path \in Range(CacheKeys(cache))
        /\ calls[i].before[2] \notin Range(CacheKeys(cache))

\* -------------------------------------------------------------------- C12
\* C12: however concurrent _load_voice calls interleave, the cache holds at
\* most n_cache_voices entries and no path twice, every entry and every
\* value returned is the embedding stored at its path, and so two misses for
\* the same path that both read storage leave one entry for it.
C12_ConcurrentLoadsKeepCache ==
    /\ Len(cache) <= n_cache_voices
    /\ Distinct(CacheKeys(cache))
    /\ \A i \in 1..Len(cache) : cache[i].emb = torch_load(store, cache[i].path)
    /\ \A t \in Threads :
          thr[t].pc = "returned" => thr[t].value = torch_load(store, thr[t].arg)

\* Two threads missed the same path, both read storage and both returned;
\* the cache holds the path once.
C12_Witness ==
    \E t, u \in Threads :
        /\ t # u
        /\ thr[t].pc = "returned" /\ thr[u].pc = "returned"
        /\ thr[t].read /\ thr[u].read
        /\ thr[t].arg = thr[u].arg
        /\ Cardinality({i \in 1..Len(cache) : cache[i].path = thr[t].arg}) = 1

\* -------------------------------------------------------------------- C13
\* C13: however the constructions TTSService(...) interleave, at most one
\* TTSService object has ever been created, every construction that has
\* returned returned that object, and once a construction has returned the
\* object's output_dir is set.
C13_SingleInstance ==
    /\ Len(objects) <= 1
    /\ \A t \in Threads : ctor[t].pc = "returned" => ctor[t].value = 1
    /\ (\E t \in Threads : ctor[t].pc = "returned") => objects[1] # NoDir

\* -------------------------------------------------------------------- C14
\* The names of the voices that have a file in the store.
StoredVoices(st) == {n \in StoreNames : st[n] # NoVoice}

\* The list is in ascending string order, with no name twice.
IsSortedList(sq) == \A i \in 1..(Len(sq) - 1) : NameLess(sq[i], sq[i + 1])

\* C14: list_voices always returns and never raises; when the enumeration
\* failed, at scandir or part-way through the entries, an error was logged
\* and the list returned is empty; when it did not fail the list returned is
\* the sorted list of the names of all .pt entries.
C14_ListEmptyOnAnyFailure ==
    (op = "list" /\ pc = "done") =>
        /\ result.kind = "returned"
        /\ (HasAny("scandir_raised") \/ HasAny("next_raised")) =>
               (HasAny("log_error") /\ listed = <<>>)
        /\ ~(HasAny("scandir_raised") \/ HasAny("next_raised")) =>
               /\ Range(listed) = StoredVoices(store)
               /\ IsSortedList(listed)

\* -------------------------------------------------------------------- C15
CombineDone == op = "combine" /\ pc = "done"

\* At least 2 names were given and every named voice was loaded.
AllLoaded == Len(voices) >= 2 /\ v_name = voices

\* The parts of the given names, one name after the other.
RECURSIVE PartsOf(_)
PartsOf(names) ==
    IF names = <<>> THEN <<>> ELSE NameParts(Head(names)) \o PartsOf(Tail(names))

\* One step, as C15 describes combine_voices; needSave tells whether writing
\* is promised only when the combination and the save did not fail.
C15_Step(needSave) ==
    /\ store' # store =>
          /\ op = "combine"
          /\ AllLoaded
          /\ \A n \in StoreNames :
                store'[n] # store[n] => NameParts(n) = PartsOf(voices)
    /\ (op = "combine" /\ pc # "done" /\ pc' = "done") =>
          IF AllLoaded' /\ (needSave => HasAny("torch_save")')
          THEN /\ CountEv("torch_save")' = 1
               /\ result'.kind = "returned"
               /\ combined' # None
               /\ NameParts(combined') = PartsOf(voices)
               /\ \E i \in 1..Len(trace') :
                     trace'[i].ev = "torch_save" /\ trace'[i].k = combined'
               /\ store'[combined'] # NoVoice
          ELSE /\ result'.kind = "raised"
               /\ combined' = None
               /\ ~AllLoaded' => (store' = store /\ ~HasAny("torch_save")'
                                  /\ ~HasAny("torch_save_raised")')
               /\ TooFew(voices) => (~HasAny("torch_load")'
                                     /\ ~HasAny("torch_load_raised")')

SaveAttempted == HasAny("torch_save") \/ HasAny("torch_save_raised")

\* C18: in combine_voices the cleanup hook has run exactly once when the save
\* was attempted, after the attempt, whether it saved or raised, and not
\* before; a save that raises ends the call with a RuntimeError, which is not
\* the class of the error for fewer than 2 voices, and no name is returned.
C18_CleanupOnceAfterSaveAttempt ==
    (op = "combine") =>
        /\ CountEv("cleanup") = (IF SaveAttempted THEN 1 ELSE 0)
        /\ SaveAttempted =>
              /\ trace[Len(trace)].ev = "cleanup"
              /\ trace[Len(trace) - 1].ev \in {"torch_save", "torch_save_raised"}
        /\ HasAny("torch_save_raised") =>
              /\ result.kind = "raised"
              /\ ExceptionType(result.err) = "RuntimeError"
              /\ ExceptionType(result.err) # ExceptionType(TooFewVoices)
              /\ combined = None
        /\ (CombineDone /\ TooFew(voices)) =>
              (result.kind = "raised" /\ ExceptionType(result.err) = "ValueError")

C18_Witness == CombineDone /\ HasAny("torch_save_raised") /\ CountEv("cleanup") = 1

\* -------------------------------------------------------------------- C20
\* C20: the embedding a streaming request holds for its voice, once loaded,
\* is the embedding the store holds under that name.
C20_UsesPersistedEmbedding ==
    (op = "stream" /\ PassedValidation) => voicepack = store[voice]

\* -------------------------------------------------------------------- C17
\* The stage of the per-chunk pipeline an event belongs to, 0 for the others.
Stage(e) ==
    IF e \in {"tokenize", "tokenize_raised"} THEN 1
    ELSE IF e \in {"synthesize", "synthesize_none", "synthesize_raised"} THEN 2
    ELSE IF e \in {"encode", "encode_raised"} THEN 3
    ELSE IF e = "yield" THEN 4
    ELSE 0

\* The pulls of a chunk and the per-chunk events, in order.  The pull of
\* chunk n is the lookahead taken while chunk n - 1 is the current one.
Pipeline ==
    SelectSeq(trace, LAMBDA x : Stage(x.ev) > 0 \/ (x.ev = "pull" /\ x.k # None))
ChunkAt(x) == IF x.ev = "pull" THEN x.k - 1 ELSE x.k

\* C17: within one streaming request the per-chunk events occur in the order
\* tokenize, synthesize, encode, yield, chunk after chunk; what follows a
\* yield is the consumer's resumption or, when the consumer stops, only the
\* cleanup, so no chunk is tokenized or synthesized before the consumer has
\* resumed after the previous yield, and none at all after the consumer
\* stopped; chunk n is pulled from the chunker only after the work on chunk
\* n - 2 and before the work on chunk n - 1, so at most one chunk beyond the
\* current one has been pulled.
C17_PullDrivenOneChunkInFlight ==
    (op = "stream") =>
        /\ LET w == Pipeline IN
           \A i \in 1..(Len(w) - 1) :
              \/ ChunkAt(w[i]) < ChunkAt(w[i + 1])
              \/ (ChunkAt(w[i]) = ChunkAt(w[i + 1])
                  /\ Stage(w[i].ev) < Stage(w[i + 1].ev))
        /\ \A i \in 1..Len(trace) :
              /\ (trace[i].ev = "yield" /\ i < Len(trace)) =>
                     trace[i + 1].ev \in {"resume", "cleanup"}
              /\ trace[i].ev = "yield" => trace[i - 1].ev = "encode"
              /\ trace[i].ev = "resume" => trace[i - 1].ev = "yield"
              /\ trace[i].ev = "cleanup" => i = Len(trace)
        /\ current_chunk # None => pulled <= current_chunk + 1
        /\ result.kind = "closed" =>
              (trace[Len(trace)].ev = "cleanup" /\ trace[Len(trace) - 1].ev = "yield")

C17_Witness ==
    /\ op = "stream"
    /\ result.kind = "closed"
    /\ Len(Yields) = 2
    /\ HasAny("resume")
    /\ pulled = MaxChunks

\* -------------------------------------------------------------------- C19
\* The stream is over, the chunker gave at least one chunk and ended without
\* an error, and every chunk failed softly.
StreamAllFailed ==
    /\ op = "stream" /\ pc = "done"
    /\ PassedValidation /\ ChunkerCompleted
    /\ pulled >= 1
    /\ \A k \in 1..pulled : Failed(k)

\* C19: a streaming request past its validation comes to its end; when every
\* chunk failed softly it ended normally, with no byte chunk yielded and no
\* error, whereas the stitched non-streaming call with no surviving chunk
\* raises one of the zero-survivor errors.
C19_StreamTerminatesSoftly ==
    /\ (op = "stream" /\ PassedValidation) ~> (pc = "done")
    /\ [](StreamAllFailed =>
            /\ result.kind = "exhausted"
            /\ result.err = ""
            /\ Yields = <<>>
            /\ trace[Len(trace)].ev = "cleanup")
    /\ []((StitchedFinished /\ pulled >= 1 /\ Survivors = {}) =>
            /\ result.kind = "raised"
            /\ result.err \in {"No chunks were processed successfully",
                               "No audio chunks were generated successfully"})

C19_Witness ==
    /\ StreamAllFailed
    /\ pulled = MaxChunks
    /\ HasAny("tokenize_raised")
    /\ HasAny("synthesize_none")
    /\ HasAny("encode_raised")

\* -------------------------------------------------------------------- C16
\* The chunks whose byte chunks the collected stream yielded, in yield order.
StreamedYields == SelectSeq(streamed.trace, LAMBDA x : x.ev = "yield")
StreamedChunks == [i \in 1..Len(StreamedYields) |-> StreamedYields[i].k]

\* The stitched call for the text and voice of the collected stream is over.
BothFinished ==
    /\ streamed # NoStream
    /\ op = "complete" /\ stitch /\ pc = "done"
    /\ AgreesWithStream

\* convert_audio raised for no chunk of the collected stream.
NoEncodeFailure ==
    ~\E j \in 1..Len(streamed.trace) : streamed.trace[j].ev = "encode_raised"

\* The audio of the two paths is the same: the chunks the stream yielded are
\* the chunks whose buffers the stitched call collected, in the same order,
\* and the audio returned holds the samples of the yielded chunks' buffers in
\* yield order; when the stitched call returns nothing, the stream yielded
\* nothing.
SameAudio ==
    /\ StreamedChunks = [i \in 1..Len(audio_chunks) |-> audio_chunks[i].id]
    /\ IF result.kind = "returned"
       THEN result.audio.samples = SamplesOf(StreamedChunks)
       ELSE StreamedChunks = <<>>

====
